---- MODULE Spec2Model ----
(***************************************************************************)
(* Cold Mail Generator (SeachEmployeeFromMyCompany.py).                    *)
(*                                                                         *)
(* The module models the Portfolio store (load_portfolio, query_links),    *)
(* the Chain stages (extract_jobs, write_mail) and the submit handler of   *)
(* create_streamlit_app.  Two specifications are given:                    *)
(*   Spec       the application: one submission after another, each a      *)
(*              linear run of the handler's calls, with process restarts;  *)
(*   SpecStore  a client that calls the Portfolio methods directly, in any *)
(*              order, on the persisted collection.                        *)
(* The hosted language model, the page fetch and the vector store are      *)
(* external: each call to them either fails or answers, and the answer is  *)
(* drawn from a small set.                                                 *)
(***************************************************************************)
EXTENDS Integers, Sequences, FiniteSets, TLC

VARIABLES
    collection,    \* the persisted "portfolio" collection: entries in insertion order
    pc,            \* position of the submit handler
    page,          \* `data`: the cleaned page text of the submission
    llmResp,       \* content of the model's answer to the extraction prompt
    jobs,          \* `jobs`: what extract_jobs returned
    i,             \* index of the job the for-loop is at
    skills,        \* `skills` of the current job
    links,         \* `links` of the current job
    drafts,        \* the texts shown with st.code, in order
    errors,        \* the messages shown with st.error in this submission
    lastExc,       \* the exception the boundary caught in this submission
    failedAt,      \* the handler position and job index where it was raised
    extractCalls,  \* model invocations made for extraction in this submission
    queryLog,      \* query_links calls of this submission
    genLog,        \* write_mail calls of this submission, with the model's answer
    ret            \* outcome of the last direct method call (SpecStore)

vars == <<collection, pc, page, llmResp, jobs, i, skills, links, drafts, errors,
          lastExc, failedAt, extractCalls, queryLog, genLog, ret>>

appVars == <<pc, page, llmResp, jobs, i, skills, links, drafts, errors,
             lastExc, failedAt, extractCalls, queryLog, genLog>>

(***************************************************************************)
(* Bounds of the model and constants of the program.                       *)
(***************************************************************************)
MaxSkills == 3     \* longest skill list the model answers with
MaxJobs == 2       \* longest job array the model answers with
NumSeed == 20      \* len(Portfolio.data)
NResults == 2      \* n_results of the similarity query

(***************************************************************************)
(* Portfolio.data                                                          *)
(***************************************************************************)
data ==
    << [Techstack |-> "React, Node.js, MongoDB", Links |-> "https://example.com/react-portfolio"],
       [Techstack |-> "Angular,.NET, SQL Server", Links |-> "https://example.com/angular-portfolio"],
       [Techstack |-> "Vue.js, Ruby on Rails, PostgreSQL", Links |-> "https://example.com/vue-portfolio"],
       [Techstack |-> "Python, Django, MySQL", Links |-> "https://example.com/python-portfolio"],
       [Techstack |-> "Java, Spring Boot, Oracle", Links |-> "https://example.com/java-portfolio"],
       [Techstack |-> "Flutter, Firebase, GraphQL", Links |-> "https://example.com/flutter-portfolio"],
       [Techstack |-> "WordPress, PHP, MySQL", Links |-> "https://example.com/wordpress-portfolio"],
       [Techstack |-> "Magento, PHP, MySQL", Links |-> "https://example.com/magento-portfolio"],
       [Techstack |-> "React Native, Node.js, MongoDB", Links |-> "https://example.com/react-native-portfolio"],
       [Techstack |-> "iOS, Swift, Core Data", Links |-> "https://example.com/ios-portfolio"],
       [Techstack |-> "Android, Java, Room Persistence", Links |-> "https://example.com/android-portfolio"],
       [Techstack |-> "Kotlin, Android, Firebase", Links |-> "https://example.com/kotlin-android-portfolio"],
       [Techstack |-> "Android TV, Kotlin, Android NDK", Links |-> "https://example.com/android-tv-portfolio"],
       [Techstack |-> "iOS, Swift, ARKit", Links |-> "https://example.com/ios-ar-portfolio"],
       [Techstack |-> "Cross-platform, Xamarin, Azure", Links |-> "https://example.com/xamarin-portfolio"],
       [Techstack |-> "Backend, Kotlin, Spring Boot", Links |-> "https://example.com/kotlin-backend-portfolio"],
       [Techstack |-> "Frontend, TypeScript, Angular", Links |-> "https://example.com/typescript-frontend-portfolio"],
       [Techstack |-> "Full-stack, JavaScript, Express.js", Links |-> "https://example.com/full-stack-js-portfolio"],
       [Techstack |-> "Machine Learning, Python, TensorFlow", Links |-> "https://example.com/ml-python-portfolio"],
       [Techstack |-> "DevOps, Jenkins, Docker", Links |-> "https://example.com/devops-portfolio"] >>

(***************************************************************************)
(* Inputs.  The skill lists are the prefixes of one list of distinct       *)
(* skills, the empty list included.                                        *)
(***************************************************************************)
SkillNames == <<"Go", "SQL", "Rust", "Java", "Swift">>

SkillLists == { SubSeq(SkillNames, 1, n) : n \in 0..MaxSkills }

\* How a call to the store can fail: 0 not at all, -1 the store is unreachable
\* (count() or query() raises), k in 1..NumSeed the k-th add() raises.
StoreFaults == -1..NumSeed

(***************************************************************************)
(* The vector store (chromadb), as the code uses it.                       *)
(***************************************************************************)
\* collection.count()
Count(coll) == Len(coll)

\* collection.add(documents=..., metadatas=..., ids=[str(uuid.uuid4())]):
\* the id is fresh, here the next unused number.
Add(coll, document, metadata) ==
    Append(coll, [ids |-> Len(coll) + 1, documents |-> document, metadatas |-> metadata])

\* The store's distance between a query text and a document is opaque to the
\* program; it is a fixed function of the two texts.
SkillNo(s) == CHOOSE n \in 1..Len(SkillNames) : SkillNames[n] = s

DocNo(d) == CHOOSE n \in 1..NumSeed : data[n].Techstack = d

Distance(s, d) == (DocNo(d) * (2 * SkillNo(s) + 1) + SkillNo(s)) % 23

\* Positions of coll in nearest-first order (ties: earlier insertion first).
RECURSIVE NearestFirst(_, _, _)
NearestFirst(coll, s, left) ==
    IF left = {} THEN <<>>
    ELSE LET best == CHOOSE p \in left : \A q \in left :
                        \/ Distance(s, coll[p].documents) < Distance(s, coll[q].documents)
                        \/ /\ Distance(s, coll[p].documents) = Distance(s, coll[q].documents)
                           /\ p <= q
         IN <<best>> \o NearestFirst(coll, s, left \ {best})

Min(a, b) == IF a < b THEN a ELSE b

\* collection.query(query_texts=texts, n_results=n): one result group per query
\* text, each the metadata of the n nearest entries (fewer when the collection
\* holds fewer); an empty list of query texts is rejected.
Query(coll, texts, n) ==
    IF Len(texts) = 0
    THEN [raised |-> "ValueError"]
    ELSE [raised |-> "none",
          metadatas |->
              [t \in 1..Len(texts) |->
                  LET order == NearestFirst(coll, texts[t], 1..Len(coll))
                  IN [r \in 1..Min(n, Len(coll)) |-> coll[order[r]].metadatas]]]

(***************************************************************************)
(* Portfolio                                                               *)
(***************************************************************************)
\* The rows load_portfolio adds before the fault, if any, stops the loop.
RECURSIVE AddRows(_, _, _)
AddRows(coll, row, fault) ==
    IF row > NumSeed \/ row = fault THEN coll
    ELSE AddRows(Add(coll, data[row].Techstack, [links |-> data[row].Links]), row + 1, fault)

\* load_portfolio without the count check: the rows are added on every call.
LoadPortfolioNoGuard(coll, fault) ==
    IF fault = -1 THEN [coll |-> coll, raised |-> "StoreError"]
    ELSE [coll |-> AddRows(coll, 1, fault),
          raised |-> IF fault \in 1..NumSeed THEN "StoreError" ELSE "none"]

\* Portfolio.load_portfolio: the collection after the call, and what it raised.
LoadPortfolio(coll, fault) ==
    IF fault = -1 THEN [coll |-> coll, raised |-> "StoreError"]
    ELSE IF Count(coll) # 0 THEN [coll |-> coll, raised |-> "none"]
    ELSE [coll |-> AddRows(coll, 1, fault),
          raised |-> IF fault \in 1..NumSeed THEN "StoreError" ELSE "none"]

\* query_links asking the store for one result more.
QueryLinksOneMore(coll, skillList, fault) ==
    IF fault = -1 THEN [raised |-> "StoreError"]
    ELSE LET res == Query(coll, skillList, NResults + 1)
         IN IF res.raised # "none" THEN [raised |-> res.raised]
            ELSE [raised |-> "none", value |-> res.metadatas]

\* query_links with a try/except around the query that answers [].
QueryLinksFailOpen(coll, skillList, fault) ==
    IF fault = -1 THEN [raised |-> "none", value |-> <<>>]
    ELSE LET res == Query(coll, skillList, NResults)
         IN IF res.raised # "none" THEN [raised |-> "none", value |-> <<>>]
            ELSE [raised |-> "none", value |-> res.metadatas]

\* Portfolio.query_links: what it returns, or what it raised.
QueryLinks(coll, skillList, fault) ==
    IF fault = -1 THEN [raised |-> "StoreError"]
    ELSE LET res == Query(coll, skillList, NResults)
         IN IF res.raised # "none" THEN [raised |-> res.raised]
            ELSE [raised |-> "none", value |-> res.metadatas]

(***************************************************************************)
(* SpecStore: the Portfolio methods called directly.                       *)
(***************************************************************************)
NoRet == [op |-> "none"]

InitApp ==
    /\ pc = "idle"
    /\ page = "none"
    /\ llmResp = [kind |-> "none"]
    /\ jobs = <<>>
    /\ i = 0
    /\ skills = <<>>
    /\ links = <<>>
    /\ drafts = <<>>
    /\ errors = <<>>
    /\ lastExc = "none"
    /\ failedAt = [stage |-> "none", job |-> 0]
    /\ extractCalls = 0
    /\ queryLog = <<>>
    /\ genLog = <<>>

\* Portfolio.__init__ on a machine where the app never ran: get_or_create
\* creates the empty collection.
Init ==
    /\ collection = <<>>
    /\ ret = NoRet
    /\ InitApp

\* portfolio.load_portfolio()
CallLoadPortfolio ==
    \E fault \in StoreFaults :
        LET r == LoadPortfolio(collection, fault)
        IN /\ collection' = r.coll
           /\ ret' = [op |-> "load_portfolio", before |-> Count(collection),
                      raised |-> r.raised]
           /\ UNCHANGED appVars

\* portfolio.query_links(skills)
CallQueryLinks ==
    \E sl \in SkillLists, fault \in {-1, 0} :
        /\ ret' = [op |-> "query_links", skills |-> sl, fault |-> fault,
                   out |-> QueryLinks(collection, sl, fault)]
        /\ UNCHANGED <<collection, appVars>>

\* A new process: Portfolio() reopens the persisted collection.
Reopen ==
    /\ ret' = [op |-> "reopen"]
    /\ UNCHANGED <<collection, appVars>>

NextStore == CallLoadPortfolio \/ CallQueryLinks \/ Reopen

SpecStore == Init /\ [][NextStore]_vars

(***************************************************************************)
(* What the language model can answer.  A content is the text of an answer,*)
(* given by what JsonOutputParser makes of it: "garbage" is not JSON, the  *)
(* other kinds are the JSON value the text denotes.                        *)
(***************************************************************************)
Garbage == [kind |-> "garbage", text |-> "Here are the jobs I found:"]

JobObjects ==
    { [kind |-> "obj", fields |-> [role |-> "Engineer", skills |-> sl]] : sl \in SkillLists }
    \cup { [kind |-> "obj", fields |-> [role |-> "Engineer"]] }

\* A JSON array may hold values that are no objects.
JobValues == JobObjects \cup { [kind |-> "str", text |-> "n/a"] }

RECURSIVE SeqsUpTo(_, _)
SeqsUpTo(S, n) ==
    IF n = 0 THEN { <<>> }
    ELSE LET shorter == SeqsUpTo(S, n - 1)
         IN shorter \cup { Append(q, x) : q \in { q \in shorter : Len(q) = n - 1 }, x \in S }

Contents ==
    {Garbage} \cup JobValues
    \cup { [kind |-> "arr", items |-> q] : q \in SeqsUpTo(JobValues, MaxJobs) }

Emails == {"Dear hiring team, ...", "Hello, ..."}

\* An answer of the model to one invocation: a transport or quota error, or a content.
ExtractAnswers == { [ok |-> FALSE] } \cup { [ok |-> TRUE, content |-> c] : c \in Contents }

EmailAnswers == { [ok |-> FALSE] } \cup { [ok |-> TRUE, content |-> e] : e \in Emails }

(***************************************************************************)
(* Chain                                                                   *)
(***************************************************************************)
\* JsonOutputParser().parse(res.content)
Parse(content) ==
    IF content.kind = "garbage" THEN [raised |-> "OutputParserException"]
    ELSE [raised |-> "none", value |-> content]

\* extract_jobs that wraps whatever was parsed, a list too.
ExtractJobsAlwaysWrap(cleaned_text, answer) ==
    IF ~answer.ok THEN [raised |-> "InvokeError", calls |-> 1]
    ELSE LET res == Parse(answer.content)
         IN IF res.raised # "none"
            THEN [raised |-> "OutputParserException", calls |-> 1]
            ELSE [raised |-> "none", calls |-> 1, value |-> <<res.value>>]

\* extract_jobs that answers no jobs when the parse fails.
ExtractJobsSwallow(cleaned_text, answer) ==
    IF ~answer.ok THEN [raised |-> "InvokeError", calls |-> 1]
    ELSE LET res == Parse(answer.content)
         IN IF res.raised # "none"
            THEN [raised |-> "none", calls |-> 1, value |-> <<>>]
            ELSE [raised |-> "none", calls |-> 1,
                  value |-> IF res.value.kind = "arr" THEN res.value.items
                            ELSE <<res.value>>]

\* Chain.extract_jobs: one invocation of the model, then the parse; a parsed
\* list is returned as it is, anything else as a one-element list.
ExtractJobs(cleaned_text, answer) ==
    IF ~answer.ok THEN [raised |-> "InvokeError", calls |-> 1]
    ELSE LET res == Parse(answer.content)
         IN IF res.raised # "none"
            THEN [raised |-> "OutputParserException", calls |-> 1]
            ELSE [raised |-> "none", calls |-> 1,
                  value |-> IF res.value.kind = "arr" THEN res.value.items
                            ELSE <<res.value>>]

\* write_mail that answers a text of its own instead of the model's.
WriteMailCanned(job, link_list, answer) ==
    IF ~answer.ok THEN [raised |-> "InvokeError"]
    ELSE [raised |-> "none", value |-> "Dear hiring team, ..."]

\* Chain.write_mail: one invocation of the model with the job and the links in
\* the prompt; the content of the answer is returned as it is.
WriteMail(job, link_list, answer) ==
    IF ~answer.ok THEN [raised |-> "InvokeError"]
    ELSE [raised |-> "none", value |-> answer.content]

(***************************************************************************)
(* create_streamlit_app: the handler of the submit button.                 *)
(***************************************************************************)
\* job.get('skills', []): only a dictionary has get.
GetSkills(job) ==
    IF job.kind # "obj" THEN [raised |-> "AttributeError"]
    ELSE [raised |-> "none",
          value |-> IF "skills" \in DOMAIN job.fields THEN job.fields.skills ELSE <<>>]

\* A boundary that catches the parser's exception only: any other exception
\* leaves the handler uncaught.
BoundaryParserOnly(exc) == IF exc = "OutputParserException" THEN "failed" ELSE "crashed"

\* except Exception as e: every exception ends the run in the handler's
\* boundary; the app then awaits the next submission.
Boundary(exc) == "failed"

\* The app awaits a submission.
Ready == pc \in {"idle", "done", "failed"}

\* A boundary inside the for-loop: a failing job is reported and the loop goes
\* on with the next one.
RaiseIsolated(exc, stage) ==
    /\ lastExc' = exc
    /\ failedAt' = [stage |-> stage, job |-> i]
    /\ errors' = Append(errors, exc)
    /\ IF stage \in {"get", "query", "write"}
       THEN i' = i + 1 /\ pc' = "loop"
       ELSE i' = i /\ pc' = "failed"

\* raise ... -> except Exception as e: st.error(...).  The for-loop is left
\* where it stood.
Raise(exc, stage) ==
    /\ lastExc' = exc
    /\ failedAt' = [stage |-> stage, job |-> i]
    /\ errors' = Append(errors, exc)
    /\ i' = i
    /\ pc' = Boundary(exc)

NoRaise == UNCHANGED <<lastExc, failedAt, errors>>

\* A run of the script starts: the page is drawn afresh, nothing of the run
\* before is shown or kept.
NewRun(at) ==
    /\ pc' = at
    /\ page' = "none"
    /\ llmResp' = [kind |-> "none"]
    /\ jobs' = <<>>
    /\ i' = 0
    /\ skills' = <<>>
    /\ links' = <<>>
    /\ drafts' = <<>>
    /\ errors' = <<>>
    /\ lastExc' = "none"
    /\ failedAt' = [stage |-> "none", job |-> 0]
    /\ extractCalls' = 0
    /\ queryLog' = <<>>
    /\ genLog' = <<>>

\* if submit_button:
Submit ==
    /\ Ready
    /\ NewRun("fetch")
    /\ UNCHANGED <<collection, ret>>

\* data = clean_text(loader.load().pop().page_content)
Fetch ==
    /\ pc = "fetch"
    /\ \E ok \in BOOLEAN :
          IF ok
          THEN /\ page' = "careers page text"
               /\ pc' = "load"
               /\ NoRaise
               /\ UNCHANGED i
          ELSE /\ Raise("FetchError", "fetch")
               /\ UNCHANGED page
    /\ UNCHANGED <<collection, llmResp, jobs, skills, links, drafts,
                   extractCalls, queryLog, genLog, ret>>

\* portfolio.load_portfolio()
Load ==
    /\ pc = "load"
    /\ \E fault \in StoreFaults :
          LET r == LoadPortfolio(collection, fault)
          IN /\ collection' = r.coll
             /\ IF r.raised = "none"
                THEN pc' = "extract" /\ NoRaise /\ UNCHANGED i
                ELSE Raise(r.raised, "load")
    /\ UNCHANGED <<page, llmResp, jobs, skills, links, drafts,
                   extractCalls, queryLog, genLog, ret>>

\* jobs = llm.extract_jobs(data)
Extract ==
    /\ pc = "extract"
    /\ \E answer \in ExtractAnswers :
          LET r == ExtractJobs(page, answer)
          IN /\ llmResp' = IF answer.ok THEN answer.content ELSE [kind |-> "none"]
             /\ extractCalls' = extractCalls + r.calls
             /\ IF r.raised = "none"
                THEN /\ jobs' = r.value
                     /\ i' = 1
                     /\ pc' = "loop"
                     /\ NoRaise
                ELSE /\ Raise(r.raised, "extract")
                     /\ UNCHANGED jobs
    /\ UNCHANGED <<collection, page, skills, links, drafts, queryLog, genLog, ret>>

\* for job in jobs: skills = job.get('skills', [])
LoopHead ==
    /\ pc = "loop"
    /\ IF i > Len(jobs)
       THEN /\ pc' = "done"
            /\ NoRaise
            /\ UNCHANGED <<skills, i>>
       ELSE LET r == GetSkills(jobs[i])
            IN IF r.raised = "none"
               THEN /\ skills' = r.value
                    /\ pc' = "query"
                    /\ NoRaise
                    /\ UNCHANGED i
               ELSE /\ Raise(r.raised, "get")
                    /\ UNCHANGED skills
    /\ UNCHANGED <<collection, page, llmResp, jobs, links, drafts,
                   extractCalls, queryLog, genLog, ret>>

\* links = portfolio.query_links(skills)
QueryStep ==
    /\ pc = "query"
    /\ \E fault \in {-1, 0} :
          LET r == QueryLinks(collection, skills, fault)
          IN /\ queryLog' = Append(queryLog, [job |-> i, skills |-> skills, fault |-> fault])
             /\ IF r.raised = "none"
                THEN /\ links' = r.value
                     /\ pc' = "write"
                     /\ NoRaise
                     /\ UNCHANGED i
                ELSE /\ Raise(r.raised, "query")
                     /\ UNCHANGED links
    /\ UNCHANGED <<collection, page, llmResp, jobs, skills, drafts,
                   extractCalls, genLog, ret>>

\* email = llm.write_mail(job, links); st.code(email, language='markdown')
WriteStep ==
    /\ pc = "write"
    /\ \E answer \in EmailAnswers :
          LET r == WriteMail(jobs[i], links, answer)
          IN /\ genLog' = Append(genLog, [job |-> i, link_list |-> links, answer |-> answer])
             /\ IF r.raised = "none"
                THEN /\ drafts' = Append(drafts, r.value)
                     /\ i' = i + 1
                     /\ pc' = "loop"
                     /\ NoRaise
                ELSE /\ Raise(r.raised, "write")
                     /\ UNCHANGED drafts
    /\ UNCHANGED <<collection, page, llmResp, jobs, skills, links,
                   extractCalls, queryLog, ret>>

\* The process ends (at any point) and a new one starts: Chain(), Portfolio()
\* and the page are built anew, the persisted collection is reopened.
Restart ==
    /\ NewRun("idle")
    /\ UNCHANGED <<collection, ret>>

Next == Submit \/ Fetch \/ Load \/ Extract \/ LoopHead \/ QueryStep \/ WriteStep \/ Restart

Spec == Init /\ [][Next]_vars

(***************************************************************************)
(* Properties                                                              *)
(***************************************************************************)
\* The collection holds each row of Portfolio.data exactly once and nothing else.
ExactlySeed(coll) ==
    /\ Len(coll) = NumSeed
    /\ \A row \in 1..NumSeed :
          Cardinality({ p \in 1..Len(coll) :
                          /\ coll[p].documents = data[row].Techstack
                          /\ coll[p].metadatas = [links |-> data[row].Links] }) = 1

LacksSkills(job) == job.kind = "obj" /\ "skills" \notin DOMAIN job.fields

\* The number of job records a parsed content holds.
JobCount(content) == IF content.kind = "arr" THEN Len(content.items) ELSE 1

RECURSIVE TotalRecords(_)
TotalRecords(groups) ==
    IF groups = <<>> THEN 0 ELSE Len(Head(groups)) + TotalRecords(Tail(groups))

\* C1: load_portfolio is idempotent.  A successful call on the empty collection
\* leaves exactly the 20 seed entries, each once; a call on a non-empty
\* collection adds nothing; and nothing but load_portfolio (a query, a new
\* process reopening the collection) changes the collection.  Hence after any
\* number of successful calls from empty the collection is exactly the seed.
LoadPortfolioIdempotent ==
    [][ /\ (Count(collection) # 0 => collection' = collection)
        /\ (ret'.op # "load_portfolio" => collection' = collection)
        /\ (/\ Count(collection) = 0
            /\ ret'.op = "load_portfolio"
            /\ ret'.raised = "none") => ExactlySeed(collection') ]_vars

\* A successful call made on the populated collection (a second call).
SecondLoadSeen ==
    /\ ret.op = "load_portfolio"
    /\ ret.raised = "none"
    /\ ret.before = NumSeed
    /\ ExactlySeed(collection)

\* C2 as stated: query_links returns at most 2 results (links), whatever the
\* length of the skill list.
QueryLinksAtMostTwo ==
    (ret.op = "query_links" /\ ret.out.raised = "none") =>
        /\ Len(ret.out.value) <= NResults
        /\ TotalRecords(ret.out.value) <= NResults

\* C2 as amended: when the query succeeds, query_links returns one result group
\* per skill of the list, each group holding at most 2 metadata records, each
\* the links metadata of an entry the store holds.
QueryLinksOneGroupPerSkill ==
    (ret.op = "query_links" /\ ret.out.raised = "none") =>
        /\ Len(ret.out.value) = Len(ret.skills)
        /\ \A t \in 1..Len(ret.out.value) :
              /\ Len(ret.out.value[t]) <= NResults
              /\ \A r \in 1..Len(ret.out.value[t]) :
                    \E p \in 1..Len(collection) :
                        ret.out.value[t][r] = collection[p].metadatas

\* A query with more than 2 skills on the populated store has returned.
ThreeSkillQuerySeen ==
    /\ ret.op = "query_links"
    /\ Len(ret.skills) = 3
    /\ ret.out.raised = "none"
    /\ Count(collection) = NumSeed
    /\ TotalRecords(ret.out.value) = 3 * NResults

\* C3 as stated: query_links fails open.  On a store with zero entries or when
\* the index query fails it returns [] and does not raise (stated here for the
\* calls with at least one skill).
QueryLinksFailsOpen ==
    (/\ ret.op = "query_links"
     /\ ret.skills # <<>>
     /\ (Count(collection) = 0 \/ ret.fault = -1)) =>
        /\ ret.out.raised = "none"
        /\ ret.out.value = <<>>

\* C3 as amended: query_links has no error handling.  A failure of the index
\* query is raised to the caller; on a store with zero entries a query that
\* succeeds returns one empty group per skill, without raising.
QueryLinksPropagates ==
    ret.op = "query_links" =>
        /\ (ret.fault = -1 => ret.out.raised # "none")
        /\ (ret.fault = 0 /\ ret.skills # <<>> /\ Count(collection) = 0) =>
              /\ ret.out.raised = "none"
              /\ Len(ret.out.value) = Len(ret.skills)
              /\ \A t \in 1..Len(ret.out.value) : ret.out.value[t] = <<>>

\* A query on the empty store has returned its empty groups.
EmptyStoreQuerySeen ==
    /\ ret.op = "query_links"
    /\ Count(collection) = 0
    /\ ret.fault = 0
    /\ Len(ret.skills) = 2
    /\ ret.out.raised = "none"
    /\ ret.out.value = << <<>>, <<>> >>

\* C4: extract_jobs returns a sequence.  A response that parses to one object
\* gives the one-element sequence of that object; a response that parses to
\* an array gives the array, unchanged.
ExtractReturnsSequence ==
    /\ (llmResp.kind = "obj" => jobs = <<llmResp>>)
    /\ (llmResp.kind = "arr" => jobs = llmResp.items)

\* The model answered a single object and it was wrapped.
SingleObjectWrapped ==
    /\ llmResp.kind = "obj"
    /\ pc = "loop"
    /\ Len(jobs) = 1
    /\ jobs[1].fields.role = "Engineer"

\* C5: a response that is not JSON makes extract_jobs raise the parser's
\* exception after one invocation of the model; the submission ends there with
\* no draft and no query_links or write_mail call.
UnparseableEndsSubmission ==
    llmResp.kind = "garbage" =>
        /\ lastExc = "OutputParserException"
        /\ failedAt.stage = "extract"
        /\ extractCalls = 1
        /\ pc = "failed"
        /\ drafts = <<>>
        /\ queryLog = <<>>
        /\ genLog = <<>>

\* The parser's exception was caught after the model answered no JSON.
UnparseableSeen ==
    /\ llmResp.kind = "garbage"
    /\ lastExc = "OutputParserException"
    /\ Len(errors) = 1

\* C6: a submission in which every call succeeds shows one draft per extracted
\* job, in extraction order, each the model's answer to that job's generation
\* call, after one extraction call and one generation call per job.
OneDraftPerJob ==
    pc = "done" =>
        LET N == JobCount(llmResp)
        IN /\ extractCalls = 1
           /\ Len(jobs) = N
           /\ Len(drafts) = N
           /\ Len(genLog) = N
           /\ Len(queryLog) = N
           /\ \A k \in 1..N :
                 /\ genLog[k].job = k
                 /\ queryLog[k].job = k
                 /\ genLog[k].answer.ok
                 /\ drafts[k] = genLog[k].answer.content

\* A submission with two jobs ended with two different drafts.
TwoDraftsSeen ==
    /\ pc = "done"
    /\ Len(jobs) = 2
    /\ Len(drafts) = 2
    /\ drafts[1] # drafts[2]

\* C7: a failure of query_links or write_mail for the k-th job ends the loop.
\* Drafts are shown for jobs 1..k-1 only, no call was made for a later job and
\* none will be, and one error message is shown.
FailureStopsLoop ==
    failedAt.stage \in {"query", "write"} =>
        LET k == failedAt.job
        IN /\ pc = "failed"
           /\ Len(errors) = 1
           /\ k \in 1..Len(jobs)
           /\ Len(drafts) = k - 1
           /\ \A j \in 1..(k - 1) :
                 /\ genLog[j].job = j
                 /\ genLog[j].answer.ok
                 /\ drafts[j] = genLog[j].answer.content
           /\ \A q \in 1..Len(queryLog) : queryLog[q].job <= k
           /\ \A g \in 1..Len(genLog) : genLog[g].job <= k
           /\ ~ENABLED (LoopHead \/ QueryStep \/ WriteStep)

\* The first of two jobs failed in write_mail: nothing was done for the second.
FirstOfTwoFailedSeen ==
    /\ failedAt = [stage |-> "write", job |-> 1]
    /\ Len(jobs) = 2
    /\ pc = "failed"
    /\ drafts = <<>>

\* C8: every failure of a submission is caught by the handler's boundary,
\* which shows one error message; the app is then ready for the next
\* submission, and no position of the handler is one it cannot leave.
FailuresCaught ==
    /\ pc \in {"idle", "fetch", "load", "extract", "loop", "query", "write", "done", "failed"}
    /\ lastExc # "none" => (pc = "failed" /\ errors = <<lastExc>>)
    /\ Ready => ENABLED Submit
    /\ ~Ready => ENABLED (Fetch \/ Load \/ Extract \/ LoopHead \/ QueryStep \/ WriteStep)

\* A job record that is no dictionary failed the run after a first draft.
NonDictJobCaughtSeen ==
    /\ lastExc = "AttributeError"
    /\ failedAt = [stage |-> "get", job |-> 2]
    /\ Len(drafts) = 1
    /\ pc = "failed"

\* C9 as stated: for a job record without the skills key, query_links is
\* called with the empty list and returns without raising (the store being
\* reachable), so that the job gets its draft.
MissingSkillsTolerated ==
    \A q \in 1..Len(queryLog) :
        (LacksSkills(jobs[queryLog[q].job]) /\ queryLog[q].fault = 0) =>
            /\ queryLog[q].skills = <<>>
            /\ ~(failedAt.stage = "query" /\ failedAt.job = queryLog[q].job)

\* C10 as stated: between operations the persisted collection holds no entry
\* or all 20 seed entries.
AllOrNothing ==
    Ready => Count(collection) \in {0, NumSeed}

====
